---- MODULE Spec2Model ----
(***************************************************************************)
(* Stylus-Trace: the call-stack aggregator (aggregator/stack_builder.rs),  *)
(* the trace normalizer (parser/stylus_trace.rs), the hot-path ranker and  *)
(* the flamegraph generator (flamegraph/generator.rs) as state machines.   *)
(*                                                                         *)
(* Strings are TLC strings, so a path is built by real concatenation and   *)
(* two paths are equal exactly when their texts are.  An Option<String> is *)
(* the empty sequence (None) or a one-element sequence (Some).  Gas values *)
(* are naturals: all inputs are far below 2^64, so u64 arithmetic does not *)
(* overflow in the model.                                                  *)
(***************************************************************************)
EXTENDS Integers, Sequences, FiniteSets, TLC

VARIABLES
    parsed_trace,   \* the ParsedTrace handed to build_collapsed_stacks
    stack_map,      \* HashMap<String, u64>: path string -> accumulated weight
    call_stack,     \* Vec<String>: the current call stack
    prev_depth,     \* the depth of the previous step
    idx,            \* position of the for loop: index of the next step
    step_paths,     \* the stack_str built for each step so far (log)
    stacks,         \* the returned Vec<CollapsedStack>
    pc,             \* "loop" | "collect" | "done"
    calls,          \* how many calls of build_collapsed_stacks were started
    first_stacks,   \* the result of the first call, once a second one started
    raw_trace,      \* the serde_json::Value handed to parse_trace
    trace_obj,      \* parse_trace: the object the fields are read from
    total_gas_used, \* parse_trace: the extracted total gas
    execution_steps,\* parse_trace: the extracted steps
    parse_result,   \* "none" | "Ok" | "InvalidFormat"
    ppc,            \* parse_trace: "idle" | "shape" | "gas" | "steps" | "hostio" | "returned"
    in_stacks,      \* the Vec<CollapsedStack> handed to a post-processing function
    threshold,      \* merge_small_stacks: the threshold
    merged,         \* merge_small_stacks: the vector being built, then returned
    other_weight,   \* merge_small_stacks: the weight folded so far
    m_idx,          \* merge_small_stacks: index of the next stack of the loop
    m_pass,         \* merge_small_stacks: 1 in the first application, 2 in the second
    top_n,          \* calculate_hot_paths: how many paths to keep
    hot_paths,      \* calculate_hot_paths: the returned Vec<HotPath>
    fg_result,      \* generate_flamegraph: "none" | "Ok" | "EmptyStacks"
    engine_input,   \* generate_flamegraph: what the layout engine was given
    validate_result,\* validate_trace_format: "none" | "Ok" | "InvalidFormat"
    hp_total_gas,   \* calculate_hot_paths: the total gas of the transaction
    runs,           \* calculate_hot_paths: how often it has returned
    post_pc         \* position of the post-processing function that runs

aggVars == <<stack_map, call_stack, prev_depth, idx, step_paths, stacks, pc,
             calls, first_stacks>>

parseVars == <<raw_trace, trace_obj, total_gas_used, execution_steps,
               parse_result, ppc>>

postVars == <<in_stacks, threshold, merged, other_weight, m_idx, m_pass, top_n,
              hot_paths, fg_result, engine_input, validate_result,
              hp_total_gas, runs, post_pc>>

vars == <<parsed_trace, aggVars, parseVars, postVars>>

----------------------------------------------------------------------------
(* Bounds of the model and the sampled input values.                       *)

MaxSteps == 2
MaxCalls == 3
MaxElems == 3

None == <<>>
Some(x) == <<x>>

Depths == {0, 1, 2}
GasCosts == {0, 50, 100}
HostioGas == {0, 25}
NamePairs == { <<None, Some("main")>>,
               <<None, Some("exec")>>,
               <<Some("hostio;Other"), Some("exec")>>,
               <<None, None>> }
SampledKinds == {"StorageLoad", "Other"}

----------------------------------------------------------------------------
(* Data of the program.                                                    *)

\* ExecutionStep: pc, gas, gas_cost, op, depth, function
ExecutionStep(p, g, c, o, d, f) ==
    [pc |-> p, gas |-> g, gas_cost |-> c, op |-> o, depth |-> d, function |-> f]

\* CollapsedStack::new
CollapsedStack(s, w) == [stack |-> s, weight |-> w]

\* The kinds add_hostio_stacks walks, in its order, under their Debug names.
HostIoTypes ==
    << "StorageLoad", "StorageStore", "Call", "StaticCall", "DelegateCall",
       "Create", "Log", "SelfDestruct", "AccountBalance", "BlockHash", "Other" >>

RECURSIVE SeqSum(_)
SeqSum(s) == IF s = <<>> THEN 0 ELSE Head(s) + SeqSum(Tail(s))

RECURSIVE SetSum(_, _)
SetSum(S, f) ==
    IF S = {} THEN 0
    ELSE LET x == CHOOSE y \in S : TRUE IN f[x] + SetSum(S \ {x}, f)

Range(s) == {s[i] : i \in DOMAIN s}

\* HostIoStats: per-kind counts, total call count, total gas.
HostIoStats(counts, gas) ==
    [counts |-> counts,
     total_calls |-> SetSum(DOMAIN counts, counts),
     total_gas |-> gas]

count_for_type(stats, kind) == stats.counts[kind]
total_gas(stats) == stats.total_gas
total_calls(stats) == stats.total_calls

Max(a, b) == IF a >= b THEN a ELSE b

\* HashMap::new(), serde_json::Map::new()
EmptyMap == [k \in {} |-> 0]

\* serde_json::Value
JNull == [t |-> "null", v |-> 0]
JBool(b) == [t |-> "bool", v |-> b]
JNum(n) == [t |-> "num", v |-> n]
\* a number with a fraction, kept as its text
JFloat(x) == [t |-> "float", v |-> x]
JStr(x) == [t |-> "str", v |-> x]
JArr(a) == [t |-> "arr", v |-> a]
JObj(o) == [t |-> "obj", v |-> o]

NoObject == [k \in {"<none>"} |-> JNull]
NoTrace == [transaction_hash |-> "", total_gas_used |-> 0,
            execution_steps |-> <<>>, hostio_stats |-> HostIoStats(EmptyMap, 0)]

\* the position and locals of parse_trace while it is not running
ParserIdle ==
    /\ raw_trace = JNull
    /\ trace_obj = NoObject
    /\ total_gas_used = 0
    /\ execution_steps = <<>>
    /\ parse_result = "none"
    /\ ppc = "idle"

\* the aggregator while it does not run
AggIdle ==
    /\ parsed_trace = NoTrace
    /\ stack_map = EmptyMap
    /\ call_stack = <<>>
    /\ prev_depth = 0
    /\ idx = 1
    /\ step_paths = <<>>
    /\ stacks = <<>>
    /\ pc = "idle"
    /\ calls = 0
    /\ first_stacks = <<>>

\* the locals of the post-processing functions while none of them runs
PostLocals ==
    /\ hp_total_gas = 0
    /\ runs = 0
    /\ merged = <<>>
    /\ other_weight = 0
    /\ m_idx = 1
    /\ m_pass = 1
    /\ hot_paths = <<>>
    /\ fg_result = "none"
    /\ engine_input = None
    /\ validate_result = "none"

PostIdle ==
    /\ in_stacks = <<>>
    /\ threshold = 0
    /\ top_n = 0
    /\ post_pc = "idle"
    /\ PostLocals

----------------------------------------------------------------------------
(* build_collapsed_stacks, step by step.                                   *)

\* (variant) the opcode is preferred to the function name
operation_op_first(step) ==
    IF step.op # None THEN step.op[1]
    ELSE IF step.function # None THEN step.function[1]
    ELSE "unknown"

\* step.function.as_deref().or(step.op.as_deref()).unwrap_or("unknown")
operation(step) ==
    IF step.function # None THEN step.function[1]
    ELSE IF step.op # None THEN step.op[1]
    ELSE "unknown"

\* (variant) the stack is never cut
truncate_never(cs, n) == cs

\* Vec::truncate
truncate(cs, n) == IF n < Len(cs) THEN SubSeq(cs, 1, n) ELSE cs

\* (variant) the frame numbered by its position, as update_call_stack does
PlaceholderFrameNumbered(cs) == "frame_" \o ToString(Len(cs))

\* the frame pushed for a call whose name the trace does not give
PlaceholderFrame(cs) == "call"

\* (variant) an if in place of the while: one frame is pushed at most
PushOnePlaceholder(cs, current_depth) ==
    IF Len(cs) < current_depth THEN Append(cs, "call") ELSE cs

\* while call_stack.len() < current_depth { call_stack.push("call") }
RECURSIVE PushPlaceholders(_, _)
PushPlaceholders(cs, current_depth) ==
    IF Len(cs) < current_depth
    THEN PushPlaceholders(Append(cs, PlaceholderFrame(cs)), current_depth)
    ELSE cs

\* the two depth branches of the loop body, in the code's order
ReconcileDepth(cs, current_depth) ==
    LET returned == IF current_depth < Len(cs) THEN truncate(cs, current_depth)
                    ELSE cs
    IN  PushPlaceholders(returned, current_depth)

\* [String]::join
RECURSIVE join(_, _)
join(parts, sep) ==
    IF parts = <<>> THEN ""
    ELSE IF Len(parts) = 1 THEN parts[1]
    ELSE parts[1] \o sep \o join(Tail(parts), sep)

\* the stack_str of the loop body
StackStr(cs, op) ==
    IF cs = <<>> THEN op ELSE join(cs, ";") \o ";" \o op

\* HashMap::entry(k).or_insert(v)
or_insert(m, k, v) == IF k \in DOMAIN m THEN m ELSE m @@ (k :> v)

\* (variant) stack_map.insert(k, w): the new weight replaces the old one
AddWeightOverwrite(m, k, w) == (k :> w) @@ m

\* *stack_map.entry(k).or_insert(0) += w
AddWeight(m, k, w) == [or_insert(m, k, 0) EXCEPT ![k] = @ + w]

\* (variant) the weight is added without the test on gas_cost
AccumulateAlways(m, path, gas_cost) == AddWeight(m, path, gas_cost)

\* if step.gas_cost > 0 { ... += step.gas_cost }
Accumulate(m, path, gas_cost) ==
    IF gas_cost > 0 THEN AddWeight(m, path, gas_cost) ELSE m

\* the loop over the steps as a whole, from a call stack and a map
RECURSIVE LoopFrom(_, _, _)
LoopFrom(steps, cs, m) ==
    IF steps = <<>> THEN m
    ELSE LET step == Head(steps)
             cs2 == ReconcileDepth(cs, step.depth)
         IN  LoopFrom(Tail(steps), cs2,
                      Accumulate(m, StackStr(cs2, operation(step)), step.gas_cost))

\* format!("hostio;{:?}", hostio_type)
HostioStackName(kind) == "hostio;" \o kind

\* (variant) the division comes first: (total_gas / total_calls.max(1)) * count
HostioWeightDivFirst(stats, count) ==
    (total_gas(stats) \div Max(total_calls(stats), 1)) * count

\* (variant) the quotient is rounded up
HostioWeightRoundUp(stats, count) ==
    (total_gas(stats) * count + Max(total_calls(stats), 1) - 1)
        \div Max(total_calls(stats), 1)

\* (total_gas * count) / total_calls.max(1)
HostioWeight(stats, count) ==
    (total_gas(stats) * count) \div Max(total_calls(stats), 1)

\* (variant) stack_map.insert(stack_name, weight) in the round
HostioRoundInsert(m, stats, kind) ==
    LET count == count_for_type(stats, kind)
    IN  IF count > 0
        THEN (HostioStackName(kind) :> HostioWeight(stats, count)) @@ m
        ELSE m

\* one round of the loop over the kinds
HostioRound(m, stats, kind) ==
    LET count == count_for_type(stats, kind)
    IN  IF count > 0
        THEN AddWeight(m, HostioStackName(kind), HostioWeight(stats, count))
        ELSE m

RECURSIVE HostioFrom(_, _, _)
HostioFrom(m, stats, k) ==
    IF k > Len(HostIoTypes) THEN m
    ELSE HostioFrom(HostioRound(m, stats, HostIoTypes[k]), stats, k + 1)

\* (variant) nothing is added for a trace without steps
add_hostio_stacks_unless_empty(m, trace) ==
    IF trace.execution_steps = <<>> THEN m
    ELSE HostioFrom(m, trace.hostio_stats, 1)

add_hostio_stacks(m, trace) == HostioFrom(m, trace.hostio_stats, 1)

\* The orders in which HashMap::into_iter may yield the keys: the order is
\* unspecified and differs from one map to the next (RandomState).
RECURSIVE IterationOrders(_)
IterationOrders(S) ==
    IF S = {} THEN {<<>>}
    ELSE UNION { { <<x>> \o rest : rest \in IterationOrders(S \ {x}) } : x \in S }

\* (variant) the vector is left in the order of the map
InsertUnsorted(sorted, x) == Append(sorted, x)

\* the comparator of sort_by: b.weight.cmp(&a.weight) puts a before b when
\* a is heavier, and keeps the order of equal weights (the sort is stable)
RECURSIVE InsertSorted(_, _)
InsertSorted(sorted, x) ==
    IF sorted = <<>> THEN <<x>>
    ELSE IF Head(sorted).weight >= x.weight
         THEN <<Head(sorted)>> \o InsertSorted(Tail(sorted), x)
         ELSE <<x>> \o sorted

RECURSIVE SortByWeight(_)
SortByWeight(v) ==
    IF v = <<>> THEN <<>>
    ELSE InsertSorted(SortByWeight(SubSeq(v, 1, Len(v) - 1)), v[Len(v)])

\* stack_map.into_iter().map(CollapsedStack::new).collect(), then the sort
CollectSorted(m, order) ==
    SortByWeight([i \in 1..Len(order) |-> CollapsedStack(order[i], m[order[i]])])

----------------------------------------------------------------------------
(* The inputs.                                                             *)

StepInputs ==
    { ExecutionStep(0, 0, c, n[2], d, n[1]) :
        c \in GasCosts, d \in Depths, n \in NamePairs }

StepSeqs == UNION { [1..n -> StepInputs] : n \in 0..MaxSteps }

\* per-kind counts: the given ones, zero for every other kind
Counts(c) == [k \in Range(HostIoTypes) |-> IF k \in DOMAIN c THEN c[k] ELSE 0]

SampledCounts ==
    { c \in [SampledKinds -> 0..MaxCalls] : SetSum(SampledKinds, c) <= MaxCalls }

\* every summary of at most MaxCalls calls of the sampled kinds
HostioInputs ==
    { h \in { HostIoStats(Counts(c), g) : c \in SampledCounts, g \in HostioGas } :
        h.total_calls = 0 => h.total_gas = 0 }

\* three summaries: no activity, one kind, two kinds sharing an odd total
SampledSummaries ==
    { HostIoStats(Counts(EmptyMap), 0),
      HostIoStats(Counts(("Other" :> 1)), 25),
      HostIoStats(Counts(("StorageLoad" :> 1) @@ ("Other" :> 1)), 25) }

ParsedTrace(steps, stats) ==
    [transaction_hash |-> "0xtest", total_gas_used |-> 0,
     execution_steps |-> steps, hostio_stats |-> stats]

\* any steps, with a sampled summary
TraceInputs == { ParsedTrace(s, h) : s \in StepSeqs, h \in SampledSummaries }

\* root-level steps, two of them named like a synthetic path, with any summary
HostioStepInputs ==
    { ExecutionStep(0, 0, c, Some("exec"), 0, f) :
        c \in {0, 50}, f \in {None, Some("hostio;Other")} }

HostioTraceInputs ==
    { ParsedTrace(s, h) :
        s \in UNION { [1..n -> HostioStepInputs] : n \in 0..MaxSteps },
        h \in HostioInputs }

----------------------------------------------------------------------------
(* The state machine.                                                      *)

\* the entry of build_collapsed_stacks
Entry ==
    /\ stack_map = EmptyMap
    /\ call_stack = <<>>
    /\ prev_depth = 0
    /\ idx = 1
    /\ step_paths = <<>>
    /\ stacks = <<>>
    /\ pc = "loop"
    /\ calls = 1
    /\ first_stacks = <<>>
    /\ ParserIdle
    /\ PostIdle

Init == parsed_trace \in TraceInputs /\ Entry

InitHostio == parsed_trace \in HostioTraceInputs /\ Entry

\* one iteration of: for step in &parsed_trace.execution_steps
ProcessStep ==
    /\ pc = "loop"
    /\ idx <= Len(parsed_trace.execution_steps)
    /\ LET step == parsed_trace.execution_steps[idx]
           cs == ReconcileDepth(call_stack, step.depth)
           stack_str == StackStr(cs, operation(step))
       IN  /\ call_stack' = cs
           /\ stack_map' = Accumulate(stack_map, stack_str, step.gas_cost)
           /\ step_paths' = Append(step_paths, stack_str)
           /\ prev_depth' = step.depth
    /\ idx' = idx + 1
    /\ UNCHANGED <<parsed_trace, stacks, pc, calls, first_stacks, parseVars, postVars>>

\* the loop is over: add_hostio_stacks(&mut stack_map, parsed_trace)
AddHostioStacks ==
    /\ pc = "loop"
    /\ idx > Len(parsed_trace.execution_steps)
    /\ stack_map' = add_hostio_stacks(stack_map, parsed_trace)
    /\ pc' = "collect"
    /\ UNCHANGED <<parsed_trace, call_stack, prev_depth, idx, step_paths,
                   stacks, calls, first_stacks, parseVars, postVars>>

\* the map becomes a vector, sorted by weight (descending), and is returned
CollectAndSort ==
    /\ pc = "collect"
    /\ \E order \in IterationOrders(DOMAIN stack_map) :
          stacks' = CollectSorted(stack_map, order)
    /\ pc' = "done"
    /\ UNCHANGED <<parsed_trace, stack_map, call_stack, prev_depth, idx,
                   step_paths, calls, first_stacks, parseVars, postVars>>

\* the caller calls build_collapsed_stacks again on the same ParsedTrace
CallAgain ==
    /\ pc = "done"
    /\ calls = 1
    /\ first_stacks' = stacks
    /\ calls' = 2
    /\ stack_map' = EmptyMap
    /\ call_stack' = <<>>
    /\ prev_depth' = 0
    /\ idx' = 1
    /\ step_paths' = <<>>
    /\ stacks' = <<>>
    /\ pc' = "loop"
    /\ UNCHANGED <<parsed_trace, parseVars, postVars>>

Next == ProcessStep \/ AddHostioStacks \/ CollectAndSort

Spec == Init /\ [][Next]_vars

NextTwice == Next \/ CallAgain

SpecTwice == Init /\ [][NextTwice]_vars

SpecHostio == InitHostio /\ [][Next]_vars

\* every summary whose total call count is the sum of its counts, gas without
\* calls included, with root-level steps
SummaryInputs ==
    { HostIoStats(Counts(c), g) : c \in SampledCounts, g \in HostioGas }

SummaryTraceInputs ==
    { ParsedTrace(s, h) :
        s \in UNION { [1..n -> HostioStepInputs] : n \in 0..MaxSteps },
        h \in SummaryInputs }

InitSummary == parsed_trace \in SummaryTraceInputs /\ Entry

SpecSummary == InitSummary /\ [][Next]_vars

----------------------------------------------------------------------------
(* parse_trace (parser/stylus_trace.rs).                                   *)
(*                                                                         *)
(* A serde_json::Value is a record [t, v]: t is "null", "bool", "num",     *)
(* "str", "arr" (v a sequence of values) or "obj" (v a function from keys  *)
(* to values).  Numbers are integers; a gas string is read character by    *)
(* character.  All numbers of the model are far below 2^32, so the range   *)
(* checks of u32 and u64 never fail.                                       *)

\* Value::as_u64
as_u64(val) == IF val.t = "num" /\ val.v >= 0 THEN Some(val.v) ELSE None

\* Value::as_str
as_str(val) == IF val.t = "str" THEN Some(val.v) ELSE None

\* Value::as_array
as_array(val) == IF val.t = "arr" THEN Some(val.v) ELSE None

HexChars == << "0", "1", "2", "3", "4", "5", "6", "7", "8", "9",
               "a", "b", "c", "d", "e", "f" >>
HexCharsUpper == << "0", "1", "2", "3", "4", "5", "6", "7", "8", "9",
                    "A", "B", "C", "D", "E", "F" >>

\* char::to_digit(radix): the digit, or -1
to_digit(c, radix) ==
    LET hits == {i \in 1..radix : HexChars[i] = c \/ HexCharsUpper[i] = c}
    IN  IF hits = {} THEN -1 ELSE (CHOOSE i \in hits : TRUE) - 1

RECURSIVE RadixDigits(_, _, _)
RadixDigits(src, radix, acc) ==
    IF Len(src) = 0 THEN acc
    ELSE LET d == to_digit(SubSeq(src, 1, 1), radix)
         IN  IF d < 0 THEN -1
             ELSE RadixDigits(SubSeq(src, 2, Len(src)), radix, acc * radix + d)

\* u64::from_str_radix and str::parse::<u64>: the number, or -1 for an Err
from_str_radix(src, radix) ==
    IF Len(src) = 0 THEN -1
    ELSE LET digits == IF SubSeq(src, 1, 1) = "+"
                       THEN SubSeq(src, 2, Len(src)) ELSE src
         IN  IF Len(digits) = 0 THEN -1 ELSE RadixDigits(digits, radix, 0)

\* (variant) the 0x prefix is not recognised
parse_gas_value_decimal_only(value) == from_str_radix(value, 10)

\* parse_gas_value: the number, or -1 for an Err
parse_gas_value(value) ==
    IF Len(value) >= 2 /\ SubSeq(value, 1, 2) = "0x"
    THEN from_str_radix(SubSeq(value, 3, Len(value)), 16)
    ELSE from_str_radix(value, 10)

gas_fields == << "gasUsed", "gas_used", "totalGas", "total_gas" >>
step_fields == << "structLogs", "struct_logs", "steps", "trace" >>

\* (variant) the first alias that is present decides: an Err (-1) when its
\* value cannot be read
RECURSIVE TotalGasFromFirstPresent(_, _)
TotalGasFromFirstPresent(obj, k) ==
    IF k > Len(gas_fields) THEN 0
    ELSE LET field == gas_fields[k]
         IN  IF field \notin DOMAIN obj THEN TotalGasFromFirstPresent(obj, k + 1)
             ELSE LET gas_value == obj[field]
                  IN  IF as_u64(gas_value) # None THEN as_u64(gas_value)[1]
                      ELSE IF as_str(gas_value) # None
                           THEN parse_gas_value(as_str(gas_value)[1])
                           ELSE -1

\* the loop of extract_total_gas from the k-th field on; Ok(0) at its end
RECURSIVE TotalGasFrom(_, _)
TotalGasFrom(obj, k) ==
    IF k > Len(gas_fields) THEN 0
    ELSE LET field == gas_fields[k]
         IN  IF field \notin DOMAIN obj THEN TotalGasFrom(obj, k + 1)
             ELSE LET gas_value == obj[field]
                  IN  IF as_u64(gas_value) # None THEN as_u64(gas_value)[1]
                      ELSE IF /\ as_str(gas_value) # None
                              /\ parse_gas_value(as_str(gas_value)[1]) >= 0
                           THEN parse_gas_value(as_str(gas_value)[1])
                           ELSE TotalGasFrom(obj, k + 1)

extract_total_gas(obj) == TotalGasFrom(obj, 1)

\* serde: a u64/u32 field under its name or alias; default 0 when absent.
\* Ok unless the value is no non-negative integer or two spellings are given.
NumField(o, names) == {k \in names : k \in DOMAIN o}
NumFieldOk(o, names) ==
    /\ Cardinality(NumField(o, names)) <= 1
    /\ \A k \in NumField(o, names) : o[k].t = "num" /\ o[k].v >= 0
NumFieldValue(o, names) ==
    IF NumField(o, names) = {} THEN 0
    ELSE o[CHOOSE k \in NumField(o, names) : TRUE].v

\* serde: an Option<String> field; None when absent or null
StrFieldOk(o, k) == k \in DOMAIN o => o[k].t \in {"null", "str"}
StrFieldValue(o, k) ==
    IF k \in DOMAIN o /\ o[k].t = "str" THEN Some(o[k].v) ELSE None

\* serde_json::from_value::<ExecutionStep>: Some(step), or None for an Err
\* (the elements of the model are objects and scalars)
from_value(val) ==
    IF val.t # "obj" THEN None
    ELSE LET o == val.v
         IN  IF /\ NumFieldOk(o, {"pc"})
                /\ NumFieldOk(o, {"gas"})
                /\ NumFieldOk(o, {"gas_cost", "gasCost"})
                /\ StrFieldOk(o, "op")
                /\ NumFieldOk(o, {"depth"})
                /\ StrFieldOk(o, "function")
             THEN Some(ExecutionStep(NumFieldValue(o, {"pc"}),
                                     NumFieldValue(o, {"gas"}),
                                     NumFieldValue(o, {"gas_cost", "gasCost"}),
                                     StrFieldValue(o, "op"),
                                     NumFieldValue(o, {"depth"}),
                                     StrFieldValue(o, "function")))
             ELSE None

\* the loop of parse_steps_array: the steps pushed so far
RECURSIVE PushParsed(_, _)
PushParsed(steps_array, steps) ==
    IF steps_array = <<>> THEN steps
    ELSE LET parsed == from_value(Head(steps_array))
         IN  PushParsed(Tail(steps_array),
                        IF parsed # None THEN Append(steps, parsed[1]) ELSE steps)

Ok(x) == [ok |-> TRUE, value |-> x]
Err(e) == [ok |-> FALSE, value |-> e]

\* (variant) the test for an array that failed as a whole is missing
parse_steps_array_lenient(steps_array) == Ok(PushParsed(steps_array, <<>>))

\* parse_steps_array
parse_steps_array(steps_array) ==
    LET steps == PushParsed(steps_array, <<>>)
    IN  IF steps = <<>> /\ steps_array # <<>>
        THEN Err("InvalidFormat")
        ELSE Ok(steps)

\* the loop of extract_execution_steps from the k-th field on
RECURSIVE StepsFrom(_, _)
StepsFrom(obj, k) ==
    IF k > Len(step_fields) THEN Ok(<<>>)
    ELSE LET field == step_fields[k]
         IN  IF field \in DOMAIN obj /\ as_array(obj[field]) # None
             THEN parse_steps_array(as_array(obj[field])[1])
             ELSE StepsFrom(obj, k + 1)

extract_execution_steps(obj) == StepsFrom(obj, 1)

\* (variant) any value that is no array is read as an object
ResolveObjectLenient(raw) ==
    IF raw.t = "arr"
    THEN Ok(("structLogs" :> raw) @@ ("gasUsed" :> JNum(0)))
    ELSE Ok(IF raw.t = "obj" THEN raw.v ELSE EmptyMap)

\* the match on raw_trace: the object to read, or an Err
ResolveObject(raw) ==
    IF raw.t = "obj" THEN Ok(raw.v)
    ELSE IF raw.t = "arr"
         THEN Ok(("structLogs" :> raw) @@ ("gasUsed" :> JNum(0)))
         ELSE Err("InvalidFormat")

----------------------------------------------------------------------------
(* The raw traces of the model.                                            *)

GoodElems ==
    { JObj(EmptyMap),
      JObj(("op" :> JStr("main")) @@ ("gasCost" :> JNum(50)) @@ ("depth" :> JNum(1))),
      JObj(("gas_cost" :> JNum(7)) @@ ("function" :> JNull) @@ ("extra" :> JBool(TRUE))) }

BadElems ==
    { JNull,
      JObj(("depth" :> JStr("x"))),
      JObj(("gasCost" :> JNum(3)) @@ ("gas_cost" :> JNum(3))) }

ElemArrays == UNION { [1..n -> GoodElems \cup BadElems] : n \in 0..MaxElems }

GasEntries ==
    { EmptyMap,
      ("gasUsed" :> JNum(1000)),
      ("total_gas" :> JStr("0x3e8")),
      ("gasUsed" :> JStr("invalid")) @@ ("total_gas" :> JNum(7)) }

StepEntries ==
    {EmptyMap}
    \cup { (step_fields[a] :> JArr(arr)) : a \in DOMAIN step_fields, arr \in ElemArrays }
    \cup { ("structLogs" :> JStr("x")) @@ ("trace" :> JArr(arr)) : arr \in ElemArrays }

OtherEntries == { EmptyMap, ("random_field" :> JStr("value")) }

RawTraces ==
    { JObj(g @@ s @@ r) : g \in GasEntries, s \in StepEntries, r \in OtherEntries }
    \cup { JArr(arr) : arr \in ElemArrays }
    \cup { JNull, JBool(TRUE), JNum(5), JStr("0x3e8") }

\* extract_hostio_events is a function of the raw trace that the model does
\* not compute: any summary it can give
HostioSummaries == SampledSummaries

----------------------------------------------------------------------------
(* parse_trace as a state machine.                                         *)

InitParse ==
    /\ raw_trace \in RawTraces
    /\ trace_obj = NoObject
    /\ total_gas_used = 0
    /\ execution_steps = <<>>
    /\ parse_result = "none"
    /\ ppc = "shape"
    /\ parsed_trace = NoTrace
    /\ stack_map = EmptyMap
    /\ call_stack = <<>>
    /\ prev_depth = 0
    /\ idx = 1
    /\ step_paths = <<>>
    /\ stacks = <<>>
    /\ pc = "idle"
    /\ calls = 0
    /\ first_stacks = <<>>
    /\ PostIdle

\* let trace_obj = match raw_trace { ... }
ResolveShape ==
    /\ ppc = "shape"
    /\ LET r == ResolveObject(raw_trace)
       IN  IF r.ok
           THEN /\ trace_obj' = r.value
                /\ ppc' = "gas"
                /\ UNCHANGED parse_result
           ELSE /\ parse_result' = r.value
                /\ ppc' = "returned"
                /\ UNCHANGED trace_obj
    /\ UNCHANGED <<raw_trace, total_gas_used, execution_steps, parsed_trace, aggVars, postVars>>

\* let total_gas_used = extract_total_gas(&trace_obj)?
ExtractTotalGas ==
    /\ ppc = "gas"
    /\ total_gas_used' = extract_total_gas(trace_obj)
    /\ ppc' = "steps"
    /\ UNCHANGED <<raw_trace, trace_obj, execution_steps, parse_result,
                   parsed_trace, aggVars, postVars>>

\* let execution_steps = extract_execution_steps(&trace_obj)?
ExtractExecutionSteps ==
    /\ ppc = "steps"
    /\ LET r == extract_execution_steps(trace_obj)
       IN  IF r.ok
           THEN /\ execution_steps' = r.value
                /\ ppc' = "hostio"
                /\ UNCHANGED parse_result
           ELSE /\ parse_result' = r.value
                /\ ppc' = "returned"
                /\ UNCHANGED execution_steps
    /\ UNCHANGED <<raw_trace, trace_obj, total_gas_used, parsed_trace, aggVars, postVars>>

\* let hostio_stats = extract_hostio_events(raw_trace); Ok(ParsedTrace { .. })
ReturnParsedTrace ==
    /\ ppc = "hostio"
    /\ \E h \in HostioSummaries :
          parsed_trace' = [transaction_hash |-> "0xtest",
                           total_gas_used |-> total_gas_used,
                           execution_steps |-> execution_steps,
                           hostio_stats |-> h]
    /\ parse_result' = "Ok"
    /\ ppc' = "returned"
    /\ UNCHANGED <<raw_trace, trace_obj, total_gas_used, execution_steps, aggVars, postVars>>

NextParse ==
    ResolveShape \/ ExtractTotalGas \/ ExtractExecutionSteps \/ ReturnParsedTrace

SpecParse == InitParse /\ [][NextParse]_vars

\* the gas fields only: every alias is absent or holds one of these values
GasValues ==
    { JNum(7), JNum(1000), JStr("0x3e8"), JStr("1000"), JStr("0xFF"),
      JStr("invalid"), JStr("0x"), JNull }

GasObjects ==
    UNION { [ks -> GasValues] : ks \in SUBSET Range(gas_fields) }

InitGas ==
    /\ raw_trace \in { JObj(o) : o \in GasObjects }
    /\ trace_obj = NoObject
    /\ total_gas_used = 0
    /\ execution_steps = <<>>
    /\ parse_result = "none"
    /\ ppc = "shape"
    /\ AggIdle
    /\ PostIdle

SpecGas == InitGas /\ [][NextParse]_vars

\* values no gas can be read from, and two it can be read from
UnusableGasValues ==
    { JStr("invalid"), JStr(""), JStr("0x"), JStr("0xzz"), JStr("12a"),
      JNum(-1), JFloat("1.5"), JNull, JBool(TRUE), JArr(<<>>), JObj(EmptyMap) }

SkipGasValues == UnusableGasValues \cup { JNum(7), JStr("0x10") }

InitGasSkip ==
    /\ raw_trace \in { JObj(o) : o \in UNION { [ks -> SkipGasValues] :
                                                  ks \in SUBSET Range(gas_fields) } }
    /\ trace_obj = NoObject
    /\ total_gas_used = 0
    /\ execution_steps = <<>>
    /\ parse_result = "none"
    /\ ppc = "shape"
    /\ AggIdle
    /\ PostIdle

SpecGasSkip == InitGasSkip /\ [][NextParse]_vars

----------------------------------------------------------------------------
(* validate_trace_format (parser/stylus_trace.rs), the quick check of the  *)
(* validate command.                                                       *)

\* Value::as_object
as_object(val) == IF val.t = "obj" THEN Some(val.v) ELSE None

has_gas(object) ==
    \/ "gasUsed" \in DOMAIN object
    \/ "gas_used" \in DOMAIN object
    \/ "totalGas" \in DOMAIN object

has_steps(object) ==
    \/ "structLogs" \in DOMAIN object
    \/ "steps" \in DOMAIN object
    \/ "trace" \in DOMAIN object

validate_trace_format(raw) ==
    IF as_object(raw) = None THEN "InvalidFormat"
    ELSE LET object == as_object(raw)[1]
         IN  IF ~has_gas(object) /\ ~has_steps(object)
             THEN "InvalidFormat"
             ELSE "Ok"

\* the objects to validate: any set of the keys below, and the values that
\* are no object
ValidateKeys ==
    { "gasUsed", "gas_used", "totalGas", "total_gas",
      "structLogs", "struct_logs", "steps", "trace", "random_field" }

KeyValue(k) ==
    IF k \in {"structLogs", "struct_logs", "steps", "trace"} THEN JArr(<<>>)
    ELSE IF k = "random_field" THEN JStr("value")
    ELSE JNum(1000)

ValidateInputs ==
    { JObj([k \in ks |-> KeyValue(k)]) : ks \in SUBSET ValidateKeys }
    \cup { JNull, JBool(TRUE), JNum(5), JStr("gasUsed"), JArr(<<>>) }

\* parse_trace while it does not run, its argument apart
ParserLocalsIdle ==
    /\ trace_obj = NoObject
    /\ total_gas_used = 0
    /\ execution_steps = <<>>
    /\ parse_result = "none"
    /\ ppc = "idle"

InitValidate ==
    /\ raw_trace \in ValidateInputs
    /\ ParserLocalsIdle
    /\ AggIdle
    /\ in_stacks = <<>>
    /\ threshold = 0
    /\ top_n = 0
    /\ post_pc = "validate"
    /\ PostLocals

\* the whole of validate_trace_format
ValidateTraceFormat ==
    /\ post_pc = "validate"
    /\ validate_result' = validate_trace_format(raw_trace)
    /\ post_pc' = "validated"
    /\ UNCHANGED <<parsed_trace, aggVars, parseVars, in_stacks, threshold, merged,
                   other_weight, m_idx, m_pass, top_n, hot_paths, fg_result, engine_input,
                   hp_total_gas, runs>>

NextValidate == ValidateTraceFormat

SpecValidate == InitValidate /\ [][NextValidate]_vars

----------------------------------------------------------------------------
(* merge_small_stacks (aggregator/stack_builder.rs).                       *)

MaxStacks == 3

StackNames3 == {"a", "b", "other"}
StackWeights == {0, 10, 500}
Thresholds == {0, 10, 100, 1000}

StackSamples == { CollapsedStack(s, w) : s \in StackNames3, w \in StackWeights }

StackLists == UNION { [1..n -> StackSamples] : n \in 0..MaxStacks }

\* (variant) a stack whose weight equals the threshold is merged
keeps_above(stack, t) == stack.weight > t

\* if stack.weight >= threshold
keeps(stack, t) == stack.weight >= t

\* (variant) the merged weight is never pushed
push_other_never(m, w) == m

\* (variant) the test on other_weight is missing
push_other_always(m, w) == Append(m, CollapsedStack("other", w))

\* if other_weight > 0 { merged.push(CollapsedStack::new("other", other_weight)) }
push_other(m, w) ==
    IF w > 0 THEN Append(m, CollapsedStack("other", w)) ELSE m

InitMerge ==
    /\ in_stacks \in StackLists
    /\ threshold \in Thresholds
    /\ top_n = 0
    /\ post_pc = "merge"
    /\ PostLocals
    /\ ParserIdle
    /\ AggIdle

\* one iteration of: for stack in stacks
MergeStack ==
    /\ post_pc = "merge"
    /\ m_idx <= Len(in_stacks)
    /\ LET stack == in_stacks[m_idx]
       IN  IF keeps(stack, threshold)
           THEN /\ merged' = Append(merged, stack)
                /\ UNCHANGED other_weight
           ELSE /\ other_weight' = other_weight + stack.weight
                /\ UNCHANGED merged
    /\ m_idx' = m_idx + 1
    /\ UNCHANGED <<parsed_trace, aggVars, parseVars, in_stacks, threshold, m_pass, top_n,
                   hot_paths, fg_result, engine_input, validate_result,
                   hp_total_gas, runs, post_pc>>

\* the loop is over: the "other" stack is added and merged is returned
ReturnMerged ==
    /\ post_pc = "merge"
    /\ m_idx > Len(in_stacks)
    /\ merged' = push_other(merged, other_weight)
    /\ post_pc' = "merged"
    /\ UNCHANGED <<parsed_trace, aggVars, parseVars, in_stacks, threshold,
                   other_weight, m_idx, m_pass, top_n, hot_paths, fg_result,
                   engine_input, validate_result, hp_total_gas, runs>>

NextMerge == MergeStack \/ ReturnMerged

SpecMerge == InitMerge /\ [][NextMerge]_vars

\* the caller applies merge_small_stacks to its result, with the same threshold
MergeAgain ==
    /\ post_pc = "merged"
    /\ m_pass = 1
    /\ in_stacks' = merged
    /\ merged' = <<>>
    /\ other_weight' = 0
    /\ m_idx' = 1
    /\ m_pass' = 2
    /\ post_pc' = "merge"
    /\ UNCHANGED <<parsed_trace, aggVars, parseVars, threshold, top_n, hot_paths,
                   fg_result, engine_input, validate_result, hp_total_gas, runs>>

NextMergeTwice == NextMerge \/ MergeAgain

SpecMergeTwice == InitMerge /\ [][NextMergeTwice]_vars

----------------------------------------------------------------------------
(* calculate_hot_paths(&stacks, total_gas, top_n), the ranker: the stacks  *)
(* sorted by weight, heaviest first, by a stable sort; the first top_n of  *)
(* them, each with its share of the total gas.                             *)

MaxRuns == 2

TopNs == {0, 1, 2, 10}
TotalGasValues == {0, 1000}

\* weight / total_gas * 100 as a fraction; 0 when total_gas = 0
percentage(weight, total) ==
    IF total = 0 THEN <<0, 1>> ELSE <<weight * 100, total>>

HotPath(st, total) ==
    [stack |-> st.stack, gas |-> st.weight,
     percentage |-> percentage(st.weight, total)]

\* x into a list that is sorted heaviest first, after the stacks of its weight
RECURSIVE RankInsert(_, _)
RankInsert(sorted, x) ==
    IF sorted = <<>> THEN <<x>>
    ELSE IF Head(sorted).weight >= x.weight
         THEN <<Head(sorted)>> \o RankInsert(Tail(sorted), x)
         ELSE <<x>> \o sorted

RECURSIVE RankSort(_)
RankSort(v) ==
    IF v = <<>> THEN <<>>
    ELSE RankInsert(RankSort(SubSeq(v, 1, Len(v) - 1)), v[Len(v)])

Truncate(v, n) == SubSeq(v, 1, IF n < Len(v) THEN n ELSE Len(v))

\* (variant) the list is ranked but not cut to top_n
calculate_hot_paths_uncut(stacks_, total, n) ==
    LET ranked == RankSort(stacks_)
    IN  [i \in 1..Len(ranked) |-> HotPath(ranked[i], total)]

calculate_hot_paths(stacks_, total, n) ==
    LET ranked == Truncate(RankSort(stacks_), n)
    IN  [i \in 1..Len(ranked) |-> HotPath(ranked[i], total)]

InitRank ==
    /\ in_stacks \in StackLists
    /\ top_n \in TopNs
    /\ hp_total_gas \in TotalGasValues
    /\ runs = 0
    /\ threshold = 0
    /\ merged = <<>>
    /\ other_weight = 0
    /\ m_idx = 1
    /\ m_pass = 1
    /\ hot_paths = <<>>
    /\ fg_result = "none"
    /\ engine_input = None
    /\ validate_result = "none"
    /\ post_pc = "rank"
    /\ ParserIdle
    /\ AggIdle

\* the whole of calculate_hot_paths
CalculateHotPaths ==
    /\ post_pc = "rank"
    /\ hot_paths' = calculate_hot_paths(in_stacks, hp_total_gas, top_n)
    /\ runs' = runs + 1
    /\ post_pc' = "ranked"
    /\ UNCHANGED <<parsed_trace, aggVars, parseVars, in_stacks, threshold, merged,
                   other_weight, m_idx, m_pass, top_n, fg_result, engine_input,
                   validate_result, hp_total_gas>>

\* the caller ranks the same stacks again
RankAgain ==
    /\ post_pc = "ranked"
    /\ runs < MaxRuns
    /\ hot_paths' = calculate_hot_paths(in_stacks, hp_total_gas, top_n)
    /\ runs' = runs + 1
    /\ UNCHANGED <<parsed_trace, aggVars, parseVars, in_stacks, threshold, merged,
                   other_weight, m_idx, m_pass, top_n, fg_result, engine_input,
                   validate_result, hp_total_gas, post_pc>>

NextRank == CalculateHotPaths \/ RankAgain

SpecRank == InitRank /\ [][NextRank]_vars

----------------------------------------------------------------------------
(* generate_flamegraph (flamegraph/generator.rs). The layout engine is the *)
(* inferno library: the model records the text it is given and lets it     *)
(* succeed or fail.                                                        *)

\* (variant) the line carries the stack alone
to_line_stack_only(st) == st.stack

\* CollapsedStack::to_line: format!("{} {}", self.stack, self.weight)
to_line(st) == st.stack \o " " \o ToString(st.weight)

stacks_to_collapsed_format(stacks_) ==
    join([i \in 1..Len(stacks_) |-> to_line(stacks_[i])], "\n")

EngineResults == {"Ok", "GenerationFailed"}

InitFlame ==
    /\ in_stacks \in StackLists
    /\ threshold = 0
    /\ top_n = 0
    /\ post_pc = "flame"
    /\ PostLocals
    /\ ParserIdle
    /\ AggIdle

\* if stacks.is_empty() { return Err(FlamegraphError::EmptyStacks) }
CheckStacks ==
    /\ post_pc = "flame"
    /\ IF in_stacks = <<>>
       THEN /\ fg_result' = "EmptyStacks"
            /\ post_pc' = "rendered"
       ELSE /\ post_pc' = "engine"
            /\ UNCHANGED fg_result
    /\ UNCHANGED <<parsed_trace, aggVars, parseVars, in_stacks, threshold, merged,
                   other_weight, m_idx, m_pass, top_n, hot_paths, engine_input,
                   validate_result, hp_total_gas, runs>>

\* the collapsed text goes to flamegraph::from_reader, whose result is returned
InvokeEngine ==
    /\ post_pc = "engine"
    /\ engine_input' = Some(stacks_to_collapsed_format(in_stacks))
    /\ fg_result' \in EngineResults
    /\ post_pc' = "rendered"
    /\ UNCHANGED <<parsed_trace, aggVars, parseVars, in_stacks, threshold, merged,
                   other_weight, m_idx, m_pass, top_n, hot_paths, validate_result,
                   hp_total_gas, runs>>

NextFlame == CheckStacks \/ InvokeEngine

SpecFlame == InitFlame /\ [][NextFlame]_vars

----------------------------------------------------------------------------
(* What the properties below speak of, computed from the input alone.      *)

Steps == parsed_trace.execution_steps
Stats == parsed_trace.hostio_stats
Kinds == Range(HostIoTypes)
ActiveKinds == {k \in Kinds : Stats.counts[k] > 0}

\* floor(total_hostio_gas * kind_count / max(total_hostio_calls, 1))
Share(k) ==
    (Stats.total_gas * Stats.counts[k])
        \div (IF Stats.total_calls >= 1 THEN Stats.total_calls ELSE 1)

HostioPath(k) == "hostio;" \o k

SumOfWeights(v) == SeqSum([i \in DOMAIN v |-> v[i].weight])

PositiveGasSum ==
    SeqSum([i \in DOMAIN Steps |->
               IF Steps[i].gas_cost > 0 THEN Steps[i].gas_cost ELSE 0])

ApportionedSum == SetSum(ActiveKinds, [k \in ActiveKinds |-> Share(k)])

\* what the steps whose path is p cost together
StepContribution(p) ==
    SeqSum([i \in DOMAIN step_paths |->
               IF step_paths[i] = p THEN Steps[i].gas_cost ELSE 0])

\* what add_hostio_stacks owes to the path p
HostioContribution(p) ==
    SetSum(ActiveKinds,
           [k \in ActiveKinds |-> IF HostioPath(k) = p THEN Share(k) ELSE 0])

PaidStepPaths ==
    {step_paths[i] : i \in {j \in DOMAIN step_paths : Steps[j].gas_cost > 0}}

StackNames(v) == {v[i].stack : i \in DOMAIN v}

----------------------------------------------------------------------------
(* C1: conservation law. The weights of the returned entries sum to the   *)
(* sum of the positive step gas costs plus, for every kind with a non-zero *)
(* count, floor(total_gas * count / max(total_calls, 1)).                  *)
C1_Conservation ==
    pc = "done" => SumOfWeights(stacks) = PositiveGasSum + ApportionedSum

\* two paid steps share one path, and two kinds share an odd gas total
C1_Witness ==
    /\ pc = "done"
    /\ \E i, j \in DOMAIN step_paths :
          /\ i < j
          /\ step_paths[i] = step_paths[j]
          /\ Steps[i].gas_cost > 0
          /\ Steps[j].gas_cost > 0
    /\ Cardinality(ActiveKinds) = 2
    /\ ApportionedSum < Stats.total_gas

----------------------------------------------------------------------------
(* C2: the two-step trace of the specification's example.                  *)
C2_Steps ==
    << ExecutionStep(0, 0, 100, Some("main"), 0, None),
       ExecutionStep(0, 0, 50, Some("exec"), 1, None) >>

C2_Case == pc = "done" /\ Steps = C2_Steps /\ Stats.total_calls = 0

----------------------------------------------------------------------------
(* C3: path uniqueness. No two returned entries have the same path string, *)
(* every path a paid step or an active kind produced is returned, and the  *)
(* weight of an entry is the sum of everything that produced its path.     *)
C3_PathUniqueness ==
    pc = "done" =>
        /\ \A i, j \in DOMAIN stacks :
              i # j => stacks[i].stack # stacks[j].stack
        /\ StackNames(stacks) =
              PaidStepPaths \cup {HostioPath(k) : k \in ActiveKinds}
        /\ \A i \in DOMAIN stacks :
              stacks[i].weight = StepContribution(stacks[i].stack)
                                   + HostioContribution(stacks[i].stack)

\* two paid steps and an active kind all produce the same path string
C3_Witness ==
    /\ pc = "done"
    /\ \E i, j \in DOMAIN step_paths, k \in ActiveKinds :
          /\ i < j
          /\ step_paths[i] = HostioPath(k)
          /\ step_paths[j] = HostioPath(k)
          /\ Steps[i].gas_cost > 0
          /\ Steps[j].gas_cost > 0
          /\ Share(k) > 0

----------------------------------------------------------------------------
(* C4: zero-cost steps create no path. Every key of the map, and every     *)
(* returned entry, is the path of a step with gas_cost > 0 or the path of  *)
(* an active host-interaction kind; a path only zero-cost steps produced   *)
(* is absent.                                                              *)
C4_ZeroCostNoPath ==
    LET hostio == IF pc \in {"collect", "done"}
                  THEN {HostioPath(k) : k \in ActiveKinds} ELSE {}
    IN  /\ DOMAIN stack_map \subseteq PaidStepPaths \cup hostio
        /\ StackNames(stacks) \subseteq PaidStepPaths \cup hostio

\* a zero-cost step was walked and its path is not in the result
C4_Witness ==
    /\ pc = "done"
    /\ stacks # <<>>
    /\ \E i \in DOMAIN step_paths :
          /\ Steps[i].gas_cost = 0
          /\ step_paths[i] \notin StackNames(stacks)

----------------------------------------------------------------------------
(* C5: host-interaction apportionment. The step from the end of the loop   *)
(* to the collection adds to "hostio;<kind>", for every kind with a        *)
(* non-zero count, exactly floor(total_gas * count / max(total_calls, 1))  *)
(* (creating the entry when absent), and creates no entry for a kind with  *)
(* a zero count.                                                           *)
C5_Apportionment ==
    [][ (pc = "loop" /\ pc' = "collect") =>
          \A k \in Kinds :
             LET p == HostioPath(k)
                 before == IF p \in DOMAIN stack_map THEN stack_map[p] ELSE 0
             IN  IF Stats.counts[k] > 0
                 THEN /\ p \in DOMAIN stack_map'
                      /\ stack_map'[p] = before + Share(k)
                 ELSE /\ (p \in DOMAIN stack_map') = (p \in DOMAIN stack_map)
                      /\ p \in DOMAIN stack_map => stack_map'[p] = stack_map[p]
      ]_vars

\* after the apportionment: one kind accumulated into a path a step made,
\* another kind has a zero count, and the floor lost gas
C5_Witness ==
    /\ pc = "collect"
    /\ \E k \in ActiveKinds :
          /\ HostioPath(k) \in PaidStepPaths
          /\ Share(k) > 0
          /\ stack_map[HostioPath(k)] = StepContribution(HostioPath(k)) + Share(k)
    /\ Cardinality(ActiveKinds) = 2
    /\ ApportionedSum < Stats.total_gas

----------------------------------------------------------------------------
(* C6: the aggregator always ends with a result. Before the result there   *)
(* is always a next step; for an empty step sequence the result is exactly *)
(* one entry "hostio;<kind>" per kind with a non-zero count, and with no   *)
(* host-interaction activity it is empty.                                  *)
C6_EmptySteps ==
    /\ pc # "done" => ENABLED Next
    /\ (pc = "done" /\ Steps = <<>>) =>
          /\ Len(stacks) = Cardinality(ActiveKinds)
          /\ Range(stacks) =
                {CollapsedStack(HostioPath(k), Share(k)) : k \in ActiveKinds}
    /\ (pc = "done" /\ Steps = <<>> /\ Stats.total_calls = 0) => stacks = <<>>

\* no steps, two active kinds, a result
C6_Witness ==
    /\ pc = "done"
    /\ Steps = <<>>
    /\ Cardinality(ActiveKinds) = 2
    /\ Len(stacks) = 2

----------------------------------------------------------------------------
(* C7: determinism. A second call on the same ParsedTrace returns the same *)
(* vector as the first, entry for entry, equal weights included.           *)
C7_Deterministic ==
    (calls = 2 /\ pc = "done") => stacks = first_stacks

----------------------------------------------------------------------------
(* What the parser's properties speak of.                                  *)

\* the elements of an array that parse as steps, in their order
KeptSteps(arr) ==
    LET good == SelectSeq(arr, LAMBDA e : from_value(e) # None)
    IN  [i \in DOMAIN good |-> from_value(good[i])[1]]

\* the positions in step_fields of the aliases that hold an array
ArrayFields(obj) ==
    {a \in DOMAIN step_fields :
        step_fields[a] \in DOMAIN obj /\ obj[step_fields[a]].t = "arr"}

\* the array of the first such alias
StepArray(obj) ==
    obj[step_fields[CHOOSE a \in ArrayFields(obj) :
                       \A b \in ArrayFields(obj) : a <= b]].v

PastShape == ppc \in {"gas", "steps", "hostio"} \/ (ppc = "returned" /\ trace_obj # NoObject)
PastSteps == ppc = "hostio" \/ (ppc = "returned" /\ trace_obj # NoObject)

----------------------------------------------------------------------------
(* C8: input shape resolution. A JSON object is the object the fields are  *)
(* read from; a bare array is parsed as the step list with total gas 0     *)
(* (and fails only when it is non-empty and no element parses); null, a    *)
(* boolean, a number and a string fail with InvalidFormat at once; no      *)
(* ParsedTrace exists unless the result is Ok.                             *)
C8_ShapeResolution ==
    /\ (raw_trace.t = "obj" /\ ppc # "shape") =>
          PastShape /\ trace_obj = raw_trace.v
    /\ (raw_trace.t = "arr" /\ ppc # "shape") => PastShape
    /\ (raw_trace.t = "arr" /\ ppc = "returned") =>
          IF raw_trace.v = <<>> \/ KeptSteps(raw_trace.v) # <<>>
          THEN /\ parse_result = "Ok"
               /\ parsed_trace.total_gas_used = 0
               /\ parsed_trace.execution_steps = KeptSteps(raw_trace.v)
          ELSE parse_result = "InvalidFormat"
    /\ (raw_trace.t \notin {"obj", "arr"} /\ ppc # "shape") =>
          /\ ppc = "returned"
          /\ parse_result = "InvalidFormat"
          /\ trace_obj = NoObject
    /\ parse_result # "Ok" => parsed_trace = NoTrace

\* a bare array with a malformed element was parsed
C8_Witness ==
    /\ ppc = "returned"
    /\ raw_trace.t = "arr"
    /\ parse_result = "Ok"
    /\ parsed_trace.execution_steps # <<>>
    /\ Len(parsed_trace.execution_steps) < Len(raw_trace.v)

----------------------------------------------------------------------------
(* C9: per-step malformation policy. Once the step list was read from an   *)
(* array: a non-empty array without a parsable element is InvalidFormat;   *)
(* otherwise the steps are exactly the parsable elements in their order;   *)
(* an empty array gives no steps and no error.                             *)
C9_MalformationPolicy ==
    (PastSteps /\ ArrayFields(trace_obj) # {}) =>
        LET arr == StepArray(trace_obj)
            kept == KeptSteps(arr)
        IN  /\ (arr # <<>> /\ kept = <<>>) =>
                  (ppc = "returned" /\ parse_result = "InvalidFormat")
            /\ kept # <<>> =>
                  (parse_result # "InvalidFormat" /\ execution_steps = kept)
            /\ arr = <<>> =>
                  (parse_result # "InvalidFormat" /\ execution_steps = <<>>)

\* two different steps were kept around a dropped element
C9_Witness ==
    /\ ppc = "returned"
    /\ parse_result = "Ok"
    /\ ArrayFields(trace_obj) # {}
    /\ LET arr == StepArray(trace_obj)
       IN  /\ Len(arr) = 3
           /\ from_value(arr[2]) = None
           /\ Len(parsed_trace.execution_steps) = 2
           /\ parsed_trace.execution_steps[1] # parsed_trace.execution_steps[2]

----------------------------------------------------------------------------
(* C10: an object with neither a total-gas field nor a step-list field,    *)
(* under any alias, is rejected with InvalidFormat and gives no            *)
(* ParsedTrace.                                                            *)
C10_RejectsFieldless ==
    ( /\ ppc = "returned"
      /\ raw_trace.t = "obj"
      /\ \A a \in DOMAIN gas_fields : gas_fields[a] \notin DOMAIN raw_trace.v
      /\ \A a \in DOMAIN step_fields : step_fields[a] \notin DOMAIN raw_trace.v )
    => (parse_result = "InvalidFormat" /\ parsed_trace = NoTrace)

----------------------------------------------------------------------------
(* C11: validate_trace_format returns Ok for an object exactly when the     *)
(* object has a key among the gas aliases (gasUsed, gas_used, totalGas,    *)
(* total_gas) or the step aliases (structLogs, struct_logs, steps, trace)  *)
(* that parse_trace reads, and InvalidFormat for every other object and    *)
(* for every value that is no object.                                      *)
ParserAliases == Range(gas_fields) \cup Range(step_fields)

C11_ValidatorAgreesWithParser ==
    post_pc = "validated" =>
        (validate_result = "Ok"
            <=> /\ raw_trace.t = "obj"
                /\ \E k \in ParserAliases : k \in DOMAIN raw_trace.v)

----------------------------------------------------------------------------
(* C12: the total gas is read from the aliases gasUsed, gas_used,          *)
(* totalGas, total_gas in that order: it is the value of the first alias   *)
(* that is present and holds a native unsigned integer or a string that    *)
(* parses as decimal or as 0x-prefixed hexadecimal ("0x3e8" and "1000"     *)
(* both read as 1000); when no alias holds such a value it is 0.           *)
AliasOrder == << "gasUsed", "gas_used", "totalGas", "total_gas" >>

\* what each value of the model reads as; -1 for a value that cannot be read
Reading(val) ==
    IF val.t = "num" /\ val.v >= 0 THEN val.v
    ELSE IF val = JStr("0x3e8") THEN 1000
    ELSE IF val = JStr("1000") THEN 1000
    ELSE IF val = JStr("0xFF") THEN 255
    ELSE -1

UsableAliases(o) ==
    {k \in DOMAIN AliasOrder :
        AliasOrder[k] \in DOMAIN o /\ Reading(o[AliasOrder[k]]) >= 0}

FirstUsable(o) == CHOOSE k \in UsableAliases(o) : \A j \in UsableAliases(o) : k <= j

C12_FirstUsableAlias ==
    ppc \in {"steps", "hostio", "returned"} =>
        total_gas_used =
            IF UsableAliases(raw_trace.v) = {} THEN 0
            ELSE Reading(raw_trace.v[AliasOrder[FirstUsable(raw_trace.v)]])

\* gasUsed is present but unreadable, gas_used holds "0x3e8" and a later
\* alias holds another readable value: the total is 1000
C12_Witness ==
    /\ ppc = "returned"
    /\ raw_trace.t = "obj"
    /\ DOMAIN raw_trace.v = {"gasUsed", "gas_used", "total_gas"}
    /\ raw_trace.v["gasUsed"] = JStr("invalid")
    /\ raw_trace.v["gas_used"] = JStr("0x3e8")
    /\ raw_trace.v["total_gas"] = JNum(7)
    /\ total_gas_used = 1000

----------------------------------------------------------------------------
(* C13: merge_small_stacks conserves weight. For every input list and      *)
(* every threshold >= 0 the weights of the returned list sum to the        *)
(* weights of the input list.                                              *)
C13_MergeConservesWeight ==
    post_pc = "merged" => SumOfWeights(merged) = SumOfWeights(in_stacks)

\* a stack was kept and two were folded into an "other" of positive weight
C13_Witness ==
    /\ post_pc = "merged"
    /\ Len(in_stacks) = 3
    /\ Len(merged) = 2
    /\ merged[1].weight >= threshold
    /\ merged[2] = [stack |-> "other", weight |-> 20]

----------------------------------------------------------------------------
(* C14: merge_small_stacks partitions its input. Every stack of weight >=  *)
(* threshold is returned unchanged, in the original relative order; every  *)
(* stack of weight < threshold is removed; one stack named "other" that    *)
(* carries the sum of the removed weights is appended at the end exactly   *)
(* when that sum is positive.                                              *)
AtLeastThreshold(st) == st.weight >= threshold
BelowThreshold(st) == st.weight < threshold

RemovedWeight == SumOfWeights(SelectSeq(in_stacks, BelowThreshold))

C14_MergePartitions ==
    post_pc = "merged" =>
        LET kept == SelectSeq(in_stacks, AtLeastThreshold)
        IN  merged =
               IF RemovedWeight > 0
               THEN kept \o << [stack |-> "other", weight |-> RemovedWeight] >>
               ELSE kept

\* a stack is kept between two removed ones, one of them weightless, and
\* "other" closes the list with the weight of the two
C14_Witness ==
    /\ post_pc = "merged"
    /\ threshold = 100
    /\ in_stacks = << [stack |-> "a", weight |-> 10],
                      [stack |-> "b", weight |-> 500],
                      [stack |-> "a", weight |-> 0] >>
    /\ merged = << [stack |-> "b", weight |-> 500],
                   [stack |-> "other", weight |-> 10] >>

----------------------------------------------------------------------------
(* C15: calculate_hot_paths(stacks, total_gas, top_n) returns at most      *)
(* top_n entries, in non-increasing order of weight, each taken from the   *)
(* input stacks, namely the top_n heaviest of them; and it returns the     *)
(* same ordered output on every re-run over the same input.                *)

\* how often the pair (stack, weight) occurs in a list of stacks or paths
TimesIn(v, name, w) == Cardinality({i \in DOMAIN v : v[i] = <<name, w>>})

InputPairs == [i \in DOMAIN in_stacks |-> <<in_stacks[i].stack, in_stacks[i].weight>>]
OutputPairs == [i \in DOMAIN hot_paths |-> <<hot_paths[i].stack, hot_paths[i].gas>>]

\* the weight left out of the output, per pair of the input
LeftOut == {p \in Range(InputPairs) :
               TimesIn(OutputPairs, p[1], p[2]) < TimesIn(InputPairs, p[1], p[2])}

C15_RankedState ==
    post_pc = "ranked" =>
        /\ Len(hot_paths) <= top_n
        /\ Len(hot_paths) = IF top_n < Len(in_stacks) THEN top_n ELSE Len(in_stacks)
        /\ \A i \in 1..(Len(hot_paths) - 1) : hot_paths[i].gas >= hot_paths[i + 1].gas
        /\ \A p \in Range(OutputPairs) :
               TimesIn(OutputPairs, p[1], p[2]) <= TimesIn(InputPairs, p[1], p[2])
        /\ \A p \in LeftOut : \A i \in DOMAIN hot_paths : hot_paths[i].gas >= p[2]

----------------------------------------------------------------------------
(* C16: generate_flamegraph on an empty list of stacks returns EmptyStacks *)
(* without giving the layout engine anything and without an SVG; on a      *)
(* non-empty list it gives the engine one line "<stack> <weight>" per      *)
(* stack, in input order, the lines separated by a newline.                *)

\* the decimal text of the weights of the model
DecimalText == (0 :> "0") @@ (10 :> "10") @@ (500 :> "500")

\* the text cut at every newline
RECURSIVE SplitLines(_, _)
SplitLines(text, line) ==
    IF Len(text) = 0 THEN <<line>>
    ELSE IF SubSeq(text, 1, 1) = "\n"
         THEN <<line>> \o SplitLines(SubSeq(text, 2, Len(text)), "")
         ELSE SplitLines(SubSeq(text, 2, Len(text)), line \o SubSeq(text, 1, 1))

C16_EngineInput ==
    /\ in_stacks = <<>> => engine_input = None /\ fg_result \in {"none", "EmptyStacks"}
    /\ post_pc = "rendered" /\ in_stacks = <<>> => fg_result = "EmptyStacks"
    /\ post_pc = "rendered" /\ in_stacks # <<>> =>
          /\ fg_result \in {"Ok", "GenerationFailed"}
          /\ engine_input # None
          /\ SplitLines(engine_input[1], "") =
                 [i \in 1..Len(in_stacks) |->
                     in_stacks[i].stack \o " " \o DecimalText[in_stacks[i].weight]]

\* three stacks, the lightest first, reach the engine as three lines
C16_Witness ==
    /\ post_pc = "rendered"
    /\ fg_result = "Ok"
    /\ engine_input = << "a 0\nother 500\nb 10" >>

----------------------------------------------------------------------------
(* C17: depth reconciliation. When the path of a step is built the call    *)
(* stack is exactly as long as the depth of the step: a depth below the    *)
(* length cuts the stack to the depth, keeping the lowest frames; a depth  *)
(* above it pushes the literal "call" until the two are equal; an equal    *)
(* depth leaves the stack as it is.                                        *)
Calls(n) == [i \in 1..n |-> "call"]

StepTaken == pc = "loop" /\ idx' = idx + 1

C17_DepthReconciliation ==
    [][StepTaken =>
        LET d == Steps[idx].depth
            len == Len(call_stack)
        IN  /\ Len(call_stack') = d
            /\ d < len => call_stack' = [i \in 1..d |-> call_stack[i]]
            /\ d > len => call_stack' = call_stack \o Calls(d - len)
            /\ d = len => call_stack' = call_stack]_vars

\* a step at depth 2 from the empty stack, then a step at depth 1
C17_Witness ==
    /\ pc = "loop"
    /\ idx = 3
    /\ Steps[1].depth = 2
    /\ Steps[2].depth = 1
    /\ call_stack = << "call" >>

----------------------------------------------------------------------------
(* C18: name resolution and path construction. The last frame of the path  *)
(* of a step is its function name when that is present, else its opcode    *)
(* mnemonic when that is present, else the literal "unknown"; the path is  *)
(* the frames of the call stack joined by ";" followed by ";" and that     *)
(* name, or the name alone when the stack is empty (depth 0).              *)
ResolvedName(st) ==
    IF Len(st.function) = 1 THEN st.function[1]
    ELSE IF Len(st.op) = 1 THEN st.op[1]
    ELSE "unknown"

RECURSIVE FramesThen(_, _)
FramesThen(frames, name) ==
    IF Len(frames) = 0 THEN name
    ELSE frames[1] \o ";" \o FramesThen(SubSeq(frames, 2, Len(frames)), name)

C18_PathConstruction ==
    [][StepTaken =>
        /\ Len(step_paths') = idx
        /\ step_paths'[idx] = FramesThen(call_stack', ResolvedName(Steps[idx]))
        /\ Steps[idx].depth = 0 => step_paths'[idx] = ResolvedName(Steps[idx])]_vars

\* a step with a function name and an opcode at depth 0, then a step with
\* neither at depth 2
C18_Witness ==
    /\ pc = "loop"
    /\ idx = 3
    /\ Steps[1].function = << "hostio;Other" >>
    /\ Steps[1].op = << "exec" >>
    /\ Steps[2].function = <<>>
    /\ Steps[2].op = <<>>
    /\ step_paths = << "hostio;Other", "call;call;unknown" >>

----------------------------------------------------------------------------
(* C19: the sequence build_collapsed_stacks returns is sorted by weight,   *)
(* heaviest first: every entry weighs at least as much as the next one.    *)
C19_SortedByWeight ==
    pc = "done" =>
        \A i \in 1..(Len(stacks) - 1) : stacks[i].weight >= stacks[i + 1].weight

\* three entries of three weights
C19_Witness ==
    /\ pc = "done"
    /\ Len(stacks) = 3
    /\ stacks[1].weight > stacks[2].weight
    /\ stacks[2].weight > stacks[3].weight

----------------------------------------------------------------------------
(* C20: history independence. The call stack only ever holds the literal   *)
(* "call", so the path of a step is its depth d and its resolved name n:   *)
(* d times "call", then n, with no name of an earlier step in it; and the  *)
(* map from paths to weights that the steps aggregate to is the same for   *)
(* every permutation of the sequence of steps.                             *)
PathOf(d, n) == FramesThen([i \in 1..d |-> "call"], n)

Permuted(q) == [i \in DOMAIN Steps |-> Steps[q[i]]]

----------------------------------------------------------------------------
(* C21: the apportionment never over-attributes. When the total call count *)
(* of the summary is the sum of its per-kind counts, the weights added to  *)
(* the "hostio;<kind>" paths sum to at most total_hostio_gas.              *)
HostioPaths == {"hostio;" \o k : k \in Kinds}

\* what a path of the map holds beyond the cost of the steps that made it
AddedTo(p) == IF p \in DOMAIN stack_map THEN stack_map[p] - StepContribution(p) ELSE 0

AddedToHostio == SetSum(HostioPaths, [p \in HostioPaths |-> AddedTo(p)])

CountsAddUp ==
    Stats.total_calls = SetSum(Kinds, [k \in Kinds |-> Stats.counts[k]])

Shortfall == Stats.total_gas - AddedToHostio

(* C21 as stated: ... and the sum falls short of total_hostio_gas by less  *)
(* than the number of kinds with a non-zero count.                         *)
C21_Original ==
    (pc = "collect" /\ CountsAddUp) =>
        /\ AddedToHostio <= Stats.total_gas
        /\ Shortfall < Cardinality(ActiveKinds)

(* C21 amended: ... and, when some kind has a non-zero count, the sum      *)
(* falls short of total_hostio_gas by less than the number of such kinds;  *)
(* when no kind has a count nothing is added, whatever the gas.            *)
C21_NeverOverAttributes ==
    (pc = "collect" /\ CountsAddUp) =>
        /\ AddedToHostio <= Stats.total_gas
        /\ ActiveKinds # {} => Shortfall < Cardinality(ActiveKinds)
        /\ ActiveKinds = {} => AddedToHostio = 0

\* two kinds of counts 1 and 2 share 25: 8 and 16 are added, 1 is lost,
\* one of the two into a path a paid step made
C21_Witness ==
    /\ pc = "collect"
    /\ Cardinality(ActiveKinds) = 2
    /\ Stats.total_calls = 3
    /\ Stats.total_gas = 25
    /\ AddedToHostio = 24
    /\ "hostio;Other" \in PaidStepPaths

----------------------------------------------------------------------------
(* C22: zero-weight entries come only from host interactions. Every entry  *)
(* build_collapsed_stacks returns whose path a paid step contributed to    *)
(* weighs more than 0; a "hostio;<kind>" entry is returned for every kind  *)
(* with a non-zero count, also when its apportioned weight is 0; so an     *)
(* entry of weight 0 is always of the form "hostio;<kind>".                *)
ActiveHostioPaths == {"hostio;" \o k : k \in ActiveKinds}

C22_ZeroWeightOnlyHostio ==
    pc = "done" =>
        /\ \A i \in DOMAIN stacks :
              stacks[i].stack \in PaidStepPaths => stacks[i].weight > 0
        /\ \A p \in ActiveHostioPaths : \E i \in DOMAIN stacks : stacks[i].stack = p
        /\ \A i \in DOMAIN stacks :
              stacks[i].weight = 0 => stacks[i].stack \in ActiveHostioPaths

\* no host-interaction gas: a counted kind is returned with weight 0 next to
\* the path of a paid step, and a zero-cost step was walked as well
C22_Witness ==
    /\ pc = "done"
    /\ Stats.total_gas = 0
    /\ \E i \in DOMAIN stacks :
          stacks[i] = [stack |-> "hostio;StorageLoad", weight |-> 0]
    /\ \E i \in DOMAIN stacks : stacks[i].stack \in PaidStepPaths
    /\ \E j \in DOMAIN Steps : Steps[j].gas_cost = 0

----------------------------------------------------------------------------
(* C23: merge_small_stacks is idempotent for a fixed threshold. Applied a  *)
(* second time, with the same threshold, to its own result it returns the  *)
(* same list: the same entries in the same order.                          *)
C23_MergeIdempotent ==
    (post_pc = "merged" /\ m_pass = 2) => merged = in_stacks

\* the first result ends with an "other" below the threshold: the second
\* application folds it and appends it again
C23_Witness ==
    /\ post_pc = "merged"
    /\ m_pass = 2
    /\ threshold = 100
    /\ other_weight = 20
    /\ merged = << [stack |-> "b", weight |-> 500],
                   [stack |-> "other", weight |-> 20] >>

----------------------------------------------------------------------------
(* C24: the extraction of the total gas never fails. A gas alias that is   *)
(* present with a value that cannot be used (a string that is neither      *)
(* decimal nor valid 0x-hex, a negative or fractional number, a value that *)
(* is no scalar) is skipped and the later aliases are still tried; when no *)
(* alias yields a value parse_trace goes on with a total gas of 0 and      *)
(* returns no error.                                                       *)
GasAliases == << "gasUsed", "gas_used", "totalGas", "total_gas" >>

\* the values of the model a gas can be read from, with what is read
Yields(val) ==
    IF val = [t |-> "num", v |-> 7] THEN 7
    ELSE IF val = [t |-> "str", v |-> "0x10"] THEN 16
    ELSE -1

\* the aliases of the raw trace that yield a value
Yielding == {k \in 1..4 : GasAliases[k] \in DOMAIN raw_trace.v
                            /\ Yields(raw_trace.v[GasAliases[k]]) >= 0}

C24_GasNeverFails ==
    /\ ppc \in {"steps", "hostio", "returned"} =>
          /\ Yielding = {} => total_gas_used = 0
          /\ \A k \in Yielding :
                (\A j \in Yielding : k <= j) =>
                    total_gas_used = Yields(raw_trace.v[GasAliases[k]])
    /\ parse_result \in {"none", "Ok"}
    /\ ppc = "returned" => parse_result = "Ok"

\* three aliases that cannot be used, of three sorts, then one that can
C24_Witness ==
    /\ ppc = "returned"
    /\ parse_result = "Ok"
    /\ DOMAIN raw_trace.v = {"gasUsed", "gas_used", "totalGas", "total_gas"}
    /\ raw_trace.v["gasUsed"] = [t |-> "str", v |-> "invalid"]
    /\ raw_trace.v["gas_used"] = [t |-> "num", v |-> -1]
    /\ raw_trace.v["totalGas"] = [t |-> "arr", v |-> <<>>]
    /\ raw_trace.v["total_gas"] = [t |-> "str", v |-> "0x10"]
    /\ total_gas_used = 16
    /\ parsed_trace.total_gas_used = 16

====
